---- MODULE Spec2Model ----
(***************************************************************************)
(* A model of the phoenix-sdk audit-log decoder                            *)
(* (SDKClientCore::parse_wrapper_events, sdk_client_core.rs) and of the    *)
(* signature polling loop (EventPoller::run, event_poller.rs), and of the  *)
(* conversions, formatting and instruction builders of SDKClientCore.      *)
(*                                                                         *)
(* Spec       : calls of parse_wrapper_events on byte buffers.             *)
(* PollerSpec : the polling loop of EventPoller::run.                      *)
(* ClientSpec : calls of the conversions and builders of SDKClientCore.    *)
(*                                                                         *)
(* Rust indexes from 0, TLA+ sequences from 1: event[k] of the source is   *)
(* event[k + 1] here and event[a..b] is SubSeq(event, a + 1, b).           *)
(***************************************************************************)
EXTENDS Integers, Sequences, FiniteSets, TLC

VARIABLES
    \* ---- parse_wrapper_events ----
    shape,          \* the log the caller built the buffers from (history)
    events,         \* events: Vec<Vec<u8>>, the argument
    pc,             \* position in parse_wrapper_events
    b,              \* the buffer the `for` loop is at (1-based)
    header,         \* let header: the header of the buffer
    offset,         \* let mut offset
    market_events,  \* let mut market_events
    cursors,        \* offset at the exit of each buffer's `while` (history)
    result,         \* what the call produced
    \* ---- EventPoller::run ----
    chain,          \* number of confirmed transactions of the market address
    until,          \* let mut until: Option<Signature>
    ppc,            \* position in run
    config,         \* the request of the current cycle
    batch,          \* what the fetch of the current cycle returned
    todo,           \* the rest of the enumerate().rev() iterator
    cur,            \* the signature being processed
    processed,      \* signatures of this batch whose send was called (history)
    queue,          \* the bounded channel
    receiverAlive,  \* the Receiver has not been dropped
    sent,           \* signatures whose message entered the channel (history)
    \* ---- SDKClientCore ----
    markets,            \* markets: BTreeMap<Pubkey, MarketMetadata>
    active_market_key,  \* active_market_key: Pubkey
    overflow_checks,    \* the build panics on integer overflow (debug) or wraps
    calls               \* the calls made on the client, with what they gave

decoderVars ==
    <<shape, events, pc, b, header, offset, market_events, cursors, result>>
pollerVars == <<chain, until, ppc, config, batch, todo, cur, processed, queue,
                receiverAlive, sent>>
clientVars == <<markets, active_market_key, overflow_checks, calls>>
vars == <<decoderVars, pollerVars, clientVars>>

(***************************************************************************)
(* Bounds of the model.                                                    *)
(***************************************************************************)
MaxBufs == 2
MaxRecs == 2
MaxSig == 4
ChanCap == 2
MaxDecimals == 3
MaxIds == 2
MaxChanges == 2         \* calls of change_active_market in a row

(***************************************************************************)
(* Constants of the program.                                               *)
(***************************************************************************)
AUDIT_LOG_HEADER_LEN == 92

\* enum MarketEventWrapper, in declaration order: borsh encodes a variant as
\* one byte holding its position in this order.
MarketEventWrapper ==
    <<"Uninitialized", "Header", "Fill", "Place", "Reduce", "Evict", "FillSummary">>

RecordKinds == {"Fill", "Place", "Reduce", "Evict", "FillSummary"}

Discriminant(kind) ==
    CHOOSE d \in 0..(Len(MarketEventWrapper) - 1) : MarketEventWrapper[d + 1] = kind

\* `let size = ...` of each arm of the match in parse_wrapper_events.
Size(kind) ==
    CASE kind = "Fill" -> 67
      [] kind = "Reduce" -> 35
      [] kind = "Place" -> 43
      [] kind = "Evict" -> 58
      [] kind = "FillSummary" -> 43

(***************************************************************************)
(* Sequences of bytes.                                                     *)
(***************************************************************************)
Zeros(n) == [k \in 1..n |-> 0]

RECURSIVE Concat(_)
Concat(ss) == IF ss = <<>> THEN <<>> ELSE Head(ss) \o Concat(Tail(ss))

Min(x, y) == IF x <= y THEN x ELSE y

(***************************************************************************)
(* Unsigned integers wider than the checker's own are kept as borsh writes *)
(* them: little-endian sequences of bytes. A u64 is 8 bytes.               *)
(***************************************************************************)
\* the n low bytes of a natural number
RECURSIVE ToBytes(_, _)
ToBytes(v, n) == IF n = 0 THEN <<>> ELSE <<v % 256>> \o ToBytes(v \div 256, n - 1)

U64(v) == ToBytes(v, 8)

\* without the zero bytes at the high end
RECURSIVE Trim(_)
Trim(x) ==
    IF x = <<>> THEN <<>>
    ELSE IF x[Len(x)] = 0 THEN Trim(SubSeq(x, 1, Len(x) - 1))
    ELSE x

Pad(x, n) == IF Len(x) >= n THEN x ELSE x \o Zeros(n - Len(x))

\* x * q + c for a byte q and a carry c; one byte longer than x
RECURSIVE MulSmall(_, _, _)
MulSmall(x, q, c) ==
    IF x = <<>> THEN <<c>>
    ELSE LET t == Head(x) * q + c
         IN <<t % 256>> \o MulSmall(Tail(x), q, t \div 256)

\* x + y + c for x and y of one length; one byte longer
RECURSIVE AddBytes(_, _, _)
AddBytes(x, y, c) ==
    IF x = <<>> THEN <<c>>
    ELSE LET t == Head(x) + Head(y) + c
         IN <<t % 256>> \o AddBytes(Tail(x), Tail(y), t \div 256)

\* the exact product, Len(x) + Len(y) bytes
RECURSIVE Mul(_, _)
Mul(x, y) ==
    IF \A k \in 1..Len(y) : y[k] = 0 THEN Zeros(Len(x) + Len(y))
    ELSE LET n == Len(x) + Len(y)
             low == Pad(MulSmall(x, Head(y), 0), n)
             high == Pad(<<0>> \o Mul(x, Tail(y)), n)
         IN SubSeq(AddBytes(low, high, 0), 1, n)

IsZero(x) == \A k \in 1..Len(x) : x[k] = 0

\* x < y as numbers, for x and y of one length
RECURSIVE LessSameLen(_, _)
LessSameLen(x, y) ==
    IF x = <<>> THEN FALSE
    ELSE IF x[Len(x)] # y[Len(y)] THEN x[Len(x)] < y[Len(y)]
    ELSE LessSameLen(SubSeq(x, 1, Len(x) - 1), SubSeq(y, 1, Len(y) - 1))

Less(x, y) ==
    LET n == IF Len(x) >= Len(y) THEN Len(x) ELSE Len(y)
    IN LessSameLen(Pad(x, n), Pad(y, n))

\* x - y - c for x >= y + c of one length
RECURSIVE SubBytes(_, _, _)
SubBytes(x, y, c) ==
    IF x = <<>> THEN <<>>
    ELSE LET t == Head(x) - Head(y) - c
         IN IF t < 0
            THEN <<t + 256>> \o SubBytes(Tail(x), Tail(y), 1)
            ELSE <<t>> \o SubBytes(Tail(x), Tail(y), 0)

\* x - y for x >= y, Len(x) bytes
Sub(x, y) == SubBytes(x, Pad(y, Len(x)), 0)

\* the largest byte q in lo..hi with q * d <= r (0 * d <= r is given)
RECURSIVE QuotientDigit(_, _, _, _)
QuotientDigit(r, d, lo, hi) ==
    IF lo = hi THEN lo
    ELSE LET mid == (lo + hi + 1) \div 2
         IN IF Less(r, MulSmall(d, mid, 0))
            THEN QuotientDigit(r, d, lo, mid - 1)
            ELSE QuotientDigit(r, d, mid, hi)

\* long division by d # 0, the high bytes first: x holds the bytes still to
\* bring down, q the quotient bytes found, r the remainder (Len(d) bytes)
RECURSIVE DivFrom(_, _, _, _)
DivFrom(x, d, q, r) ==
    IF x = <<>> THEN [q |-> q, r |-> r]
    ELSE LET part == <<x[Len(x)]>> \o r
             digit == QuotientDigit(part, d, 0, 255)
         IN DivFrom(SubSeq(x, 1, Len(x) - 1), d, <<digit>> \o q,
                    SubSeq(Sub(part, MulSmall(d, digit, 0)), 1, Len(d)))

\* the quotient and the remainder, without the operands' high zero bytes
DivMod(x, d) == DivFrom(Trim(x), Trim(d), <<>>, Zeros(Len(Trim(d))))

Div(x, d) == DivMod(x, d).q
Rem(x, d) == DivMod(x, d).r

FitsU64(x) == Len(Trim(x)) <= 8

\* 2^(8 * n) as n + 1 bytes, and the largest u64
Pow256(n) == Zeros(n) \o <<1>>
U64Max == [k \in 1..8 |-> 255]

\* the value kept by a u64: the low 8 bytes
WrapU64(x) == SubSeq(Pad(x, 8), 1, 8)

\* a * b on u64 in a build without overflow checks
WrappingMul_lowWord(x, y) == SubSeq(Pad(MulSmall(x, y[1], 0), 8), 1, 8)
WrappingMul(x, y) == WrapU64(Mul(x, y))

\* index: u16 of a record, little-endian (borsh).
EncodeIndex(i) == <<i % 256, i \div 256>>
DecodeIndex_bigEndian(bytes) == 256 * bytes[1] + bytes[2]
DecodeIndex(bytes) == bytes[1] + 256 * bytes[2]

(***************************************************************************)
(* borsh deserialization, as the calls of parse_wrapper_events use it.     *)
(* try_from_slice fails when the slice is too short for the variant named  *)
(* by its first byte, when that byte names no variant, and when bytes are  *)
(* left over. Every field of the records is a fixed-width integer or a     *)
(* public key, so a slice of the right length always deserializes.         *)
(***************************************************************************)
Err == [ok |-> FALSE, kind |-> "", index |-> 0, fields |-> <<>>]

\* The u64 fields that close the payload of a variant, in the order of the
\* variant's declaration:
\*   Fill        order_sequence_number, price_in_ticks, base_lots_filled,
\*               base_lots_remaining
\*   Reduce      order_sequence_number, price_in_ticks, base_lots_removed,
\*               base_lots_remaining
\*   Place       price_in_ticks, base_lots_placed
\*   Evict       order_sequence_number, price_in_ticks, base_lots_evicted
\*   FillSummary total_base_lots_filled, total_quote_lots_filled,
\*               total_fee_in_quote_lots
NumFields(kind) ==
    CASE kind = "Fill" -> 4
      [] kind = "Reduce" -> 4
      [] kind = "Place" -> 2
      [] kind = "Evict" -> 3
      [] kind = "FillSummary" -> 3
      [] OTHER -> 0

\* the k-th of the n u64 fields that close a slice
FieldAt(slice, n, k) ==
    SubSeq(slice, Len(slice) - 8 * (n - k + 1) + 1, Len(slice) - 8 * (n - k))

DecodeFields(slice, n) == [k \in 1..n |-> FieldAt(slice, n, k)]

\* MarketEventWrapper::try_from_slice(&[byte])
MarketEventWrapper_try_from_slice(byte) ==
    IF byte < Len(MarketEventWrapper)
    THEN [ok |-> TRUE, kind |-> MarketEventWrapper[byte + 1], index |-> 0,
          fields |-> <<>>]
    ELSE Err

\* Serialized length of a MarketEvent variant, discriminant byte included.
\* MarketEvent is phoenix_types::events::MarketEvent: its variants are those
\* of MarketEventWrapper, in the same order, and a record of the log is
\* written with the length the decoder slices for it.
SerializedLen(kind) ==
    CASE kind = "Uninitialized" -> 1
      [] kind = "Header" -> 92
      [] kind = "Fill" -> 67
      [] kind = "Place" -> 43
      [] kind = "Reduce" -> 35
      [] kind = "Evict" -> 58
      [] kind = "FillSummary" -> 43

\* MarketEvent::Header { header }: after the discriminant byte come
\* instruction (u8), market_sequence_number (u64), timestamp (i64), slot
\* (u64), market and signer (32 bytes each) and total_events (u16)
DecodeHeader(slice) ==
    [market_sequence_number |-> SubSeq(slice, 3, 10),
     timestamp |-> SubSeq(slice, 11, 18),
     slot |-> SubSeq(slice, 19, 26),
     market |-> SubSeq(slice, 27, 58),
     signer |-> SubSeq(slice, 59, 90)]

\* MarketEvent::try_from_slice(slice)
MarketEvent_try_from_slice(slice) ==
    IF slice = <<>> THEN Err
    ELSE LET w == MarketEventWrapper_try_from_slice(slice[1]) IN
         IF ~w.ok THEN Err
         ELSE IF Len(slice) # SerializedLen(w.kind) THEN Err
         ELSE IF w.kind \in RecordKinds
              THEN [ok |-> TRUE, kind |-> w.kind,
                    index |-> DecodeIndex(SubSeq(slice, 2, 3)),
                    fields |-> DecodeFields(slice, NumFields(w.kind))]
              ELSE IF w.kind = "Header"
              THEN [ok |-> TRUE, kind |-> w.kind, index |-> 0,
                    fields |-> DecodeHeader(slice)]
              ELSE [ok |-> TRUE, kind |-> w.kind, index |-> 0, fields |-> <<>>]

(***************************************************************************)
(* The inputs. A call is given at most MaxBufs buffers holding at most     *)
(* MaxRecs records in all; the index fields follow one of IndexSchemes;    *)
(* at most one fault is injected: a first byte that is no Header, a last   *)
(* byte cut off, or a byte that names no record kind after the records of  *)
(* a buffer. A buffer is described by [hdr, recs, cut].                    *)
(***************************************************************************)
IndexSchemes == {"position", "high", "zero"}

\* the index field of the k-th record (from 0) of a buffer
IndexOf(scheme, k) ==
    CASE scheme = "position" -> k
      [] scheme = "high" -> 256 + k
      [] scheme = "zero" -> 0

IndexValues == {IndexOf(sc, k) : sc \in IndexSchemes, k \in 0..MaxRecs}

\* the f-th u64 field of the k-th record of a buffer: small values, values
\* of 2^63 and more, or zero
FieldOf(scheme, k, f) ==
    CASE scheme = "position" -> U64(4 + f + 16 * k)
      [] scheme = "high" -> <<f, 0, 0, 0, 0, 0, 0, 128 + k>>
      [] scheme = "zero" -> U64(0)

MakeRecord(kind, scheme, k) ==
    [disc |-> Discriminant(kind),
     index |-> IndexOf(scheme, k),
     fields |-> [f \in 1..NumFields(kind) |-> FieldOf(scheme, k, f)]]

\* every record of a well-formed log, and its bytes
RecordTable ==
    [kind \in RecordKinds, sc \in IndexSchemes, k \in 0..MaxRecs |-> MakeRecord(kind, sc, k)]

GoodRecords ==
    {RecordTable[kind, sc, k] : kind \in RecordKinds, sc \in IndexSchemes, k \in 0..MaxRecs}
BadDiscriminants == {0, 1, 7}
BadHeaderBytes == {0, 2, 7}

\* the byte names a record kind
IsRecordByte(d) ==
    LET w == MarketEventWrapper_try_from_slice(d) IN w.ok /\ w.kind \in RecordKinds

RecordBytes(r) ==
    IF IsRecordByte(r.disc)
    THEN <<r.disc>> \o EncodeIndex(r.index)
         \o Zeros(SerializedLen(MarketEventWrapper[r.disc + 1]) - 3 - 8 * Len(r.fields))
         \o Concat(r.fields)
    ELSE <<r.disc>>

Pubkey(v) == [j \in 1..32 |-> v]

\* the header a program writes to the k-th buffer of a call: each buffer is
\* the log of another instruction, of its own slot, time and signer
AuditLogHeader(k) ==
    [market_sequence_number |-> U64(100 + k),
     timestamp |-> U64(1700000000 + k),
     slot |-> U64(5000 + k),
     market |-> Pubkey(7),
     signer |-> Pubkey(40 + k)]

\* the headers of the buffers of a call, by buffer
AuditLogHeaders == [k \in 1..MaxBufs |-> AuditLogHeader(k)]

HeaderBytes(d, h) ==
    <<d, 0>> \o h.market_sequence_number \o h.timestamp \o h.slot
        \o h.market \o h.signer \o <<0, 0>>

BufferBytes(s) ==
    LET full == HeaderBytes(s.hdr, s.header) \o Concat([k \in 1..Len(s.recs) |-> RecordBytes(s.recs[k])])
    IN SubSeq(full, 1, Len(full) - s.cut)

SeqsUpTo(S, n) == UNION {[1..k -> S] : k \in 0..n}

\* the ways to split n records over nb buffers: ends[k] is the number of
\* records in the buffers 1..k
Splits(nb, n) ==
    IF nb = 0 THEN (IF n = 0 THEN {<<>>} ELSE {})
    ELSE {e \in [1..nb -> 0..n] :
            /\ e[nb] = n
            /\ \A k \in 1..(nb - 1) : e[k] <= e[k + 1]}

NoFault == [type |-> "none", at |-> 0, byte |-> 0]
Faults(nb) ==
    {NoFault}
    \cup {[type |-> "header", at |-> k, byte |-> d] : k \in 1..nb, d \in BadHeaderBytes}
    \cup {[type |-> "cut", at |-> k, byte |-> 0] : k \in 1..nb}
    \cup {[type |-> "record", at |-> k, byte |-> d] : k \in 1..nb, d \in BadDiscriminants}

MakeShape(nb, ks, ends, scheme, fault) ==
    [k \in 1..nb |->
        LET first == IF k = 1 THEN 0 ELSE ends[k - 1]
            good == [j \in 1..(ends[k] - first) |-> RecordTable[ks[first + j], scheme, j - 1]]
        IN [hdr |-> IF fault.type = "header" /\ fault.at = k
                    THEN fault.byte ELSE Discriminant("Header"),
            header |-> AuditLogHeaders[k],
            recs |-> IF fault.type = "record" /\ fault.at = k
                     THEN Append(good, [disc |-> fault.byte, index |-> 0, fields |-> <<>>])
                     ELSE good,
            cut |-> IF fault.type = "cut" /\ fault.at = k THEN 1 ELSE 0]]

\* the records of a list of buffers, in byte order and buffer order
RECURSIVE Records(_)
Records(ss) == IF ss = <<>> THEN <<>> ELSE Head(ss).recs \o Records(Tail(ss))

WellFormedBuffer(s) ==
    /\ s.hdr = Discriminant("Header")
    /\ s.cut = 0
    /\ \A k \in 1..Len(s.recs) : s.recs[k] \in GoodRecords

WellFormed(ss) == \A k \in 1..Len(ss) : WellFormedBuffer(ss[k])

(***************************************************************************)
(* parse_wrapper_events                                                    *)
(***************************************************************************)
Pending == [tag |-> "Pending", list |-> <<>>]
None == [tag |-> "None", list |-> <<>>]
Panic == [tag |-> "Panic", list |-> <<>>]
Some(list) == [tag |-> "Some", list |-> list]

\* let meta = self.get_active_market_metadata(): the lot sizes of the active
\* market, which is taken to be registered
Meta == [base_lot_size |-> U64(1000), quote_lot_size |-> U64(7)]

\* the u64 fields of the details of an event: those of the payload, and for
\* FillSummary total_base_lots_filled * meta.base_lot_size,
\* total_quote_lots_filled * meta.quote_lot_size and
\* total_fee_in_quote_lots * meta.quote_lot_size
Details_unscaled(arm, fields) == fields
Details(arm, fields) ==
    IF arm = "FillSummary"
    THEN <<WrappingMul(fields[1], Meta.base_lot_size),
           WrappingMul(fields[2], Meta.quote_lot_size),
           WrappingMul(fields[3], Meta.quote_lot_size)>>
    ELSE fields

\* one of the three products does not fit a u64: a build with overflow checks
\* panics there, a build without them wraps
MulOverflows(arm, fields) ==
    /\ arm = "FillSummary"
    /\ \/ ~FitsU64(Mul(fields[1], Meta.base_lot_size))
       \/ ~FitsU64(Mul(fields[2], Meta.quote_lot_size))
       \/ ~FitsU64(Mul(fields[3], Meta.quote_lot_size))

\* PhoenixEvent { market: header.market, sequence_number:
\* header.market_sequence_number, slot: header.slot, timestamp:
\* header.timestamp, signer: header.signer, event_index: index as u64,
\* details: <the arm's variant> }
PhoenixEvent_evictAsPlace(arm, ev) ==
    [market |-> header.market,
     sequence_number |-> header.market_sequence_number,
     slot |-> header.slot, timestamp |-> header.timestamp,
     signer |-> header.signer,
     details |-> IF arm = "Evict" THEN "Place" ELSE arm, event_index |-> ev.index,
     fields |-> Details(arm, ev.fields)]
PhoenixEvent(arm, ev) ==
    [market |-> header.market,
     sequence_number |-> header.market_sequence_number,
     slot |-> header.slot, timestamp |-> header.timestamp,
     signer |-> header.signer,
     details |-> arm, event_index |-> ev.index, fields |-> Details(arm, ev.fields)]

NoHeader == <<>>

\* `let header` bound once for the call, by the first buffer
BindHeader_once(bound, header_event) ==
    IF bound = NoHeader THEN header_event.fields ELSE bound

\* let header = match header_event { MarketEvent::Header { header } => .. }:
\* bound anew in each iteration of the `for`
BindHeader(bound, header_event) == header_event.fields

\* &event[from..to]: in range, or a panic
SliceInRange_clamped(event, from, to) == from <= Len(event)
SliceInRange(event, from, to) == from <= to /\ to <= Len(event)

Slice(event, from, to) == SubSeq(event, from + 1, Min(to, Len(event)))

\* offset += size
Advance_stall(off, size) == off
Advance_plusOne(off, size) == off + 1 + size
Advance(off, size) == off + size

Finish(r) ==
    /\ result' = r
    /\ pc' = "done"

\* a caller invokes parse_wrapper_events(sig, events)
Call ==
    /\ pc = "idle"
    /\ \E nb \in 0..MaxBufs, ks \in SeqsUpTo(RecordKinds, MaxRecs), scheme \in IndexSchemes :
       \E ends \in Splits(nb, Len(ks)), fault \in Faults(nb) :
          LET s == MakeShape(nb, ks, ends, scheme, fault) IN
          /\ shape' = s
          /\ events' = [k \in 1..Len(s) |-> BufferBytes(s[k])]
    /\ pc' = "for"
    /\ b' = 1
    /\ header' = NoHeader
    /\ offset' = 0
    /\ market_events' = <<>>
    /\ cursors' = <<>>
    /\ result' = Pending
    /\ UNCHANGED <<pollerVars, clientVars>>

\* for event in events.iter() { the header of the buffer
HeaderPhase ==
    /\ pc = "for"
    /\ b <= Len(events)
    /\ LET event == events[b] IN
       IF ~SliceInRange(event, 0, AUDIT_LOG_HEADER_LEN)
       THEN Finish(Panic) /\ UNCHANGED <<offset, header>>
       ELSE LET header_event ==
                    MarketEvent_try_from_slice(Slice(event, 0, AUDIT_LOG_HEADER_LEN))
            IN IF ~header_event.ok
               THEN Finish(None) /\ UNCHANGED <<offset, header>>
               ELSE IF header_event.kind # "Header"
               THEN Finish(Panic) /\ UNCHANGED <<offset, header>>
               ELSE /\ header' = BindHeader(header, header_event)
                    /\ offset' = AUDIT_LOG_HEADER_LEN
                    /\ pc' = "while"
                    /\ UNCHANGED result
    /\ UNCHANGED <<shape, events, b, market_events, cursors>>
    /\ UNCHANGED <<pollerVars, clientVars>>

\* while offset < num_bytes { one record
RecordStep ==
    /\ pc = "while"
    /\ offset < Len(events[b])
    /\ LET event == events[b]
           wrapper == MarketEventWrapper_try_from_slice(event[offset + 1])
       IN
       IF ~wrapper.ok
       THEN Finish(None) /\ UNCHANGED <<offset, market_events>>
       ELSE IF wrapper.kind \notin RecordKinds
       THEN Finish(Panic) /\ UNCHANGED <<offset, market_events>>
       ELSE LET size == Size(wrapper.kind) IN
            IF ~SliceInRange(event, offset, offset + size)
            THEN Finish(Panic) /\ UNCHANGED <<offset, market_events>>
            ELSE LET ev == MarketEvent_try_from_slice(Slice(event, offset, offset + size))
                 IN IF ~ev.ok
                    THEN Finish(None) /\ UNCHANGED <<offset, market_events>>
                    ELSE /\ offset' = Advance(offset, size)
                         /\ IF ev.kind = wrapper.kind
                            THEN \/ /\ market_events' =
                                        Append(market_events, PhoenixEvent(wrapper.kind, ev))
                                    /\ UNCHANGED <<pc, result>>
                                 \/ /\ MulOverflows(wrapper.kind, ev.fields)
                                    /\ Finish(Panic)
                                    /\ UNCHANGED market_events
                            ELSE Finish(Panic) /\ UNCHANGED market_events
    /\ UNCHANGED <<shape, events, b, header, cursors>>
    /\ UNCHANGED <<pollerVars, clientVars>>

\* the `while` of a buffer ends: the next buffer
EndBuffer ==
    /\ pc = "while"
    /\ ~(offset < Len(events[b]))
    /\ cursors' = Append(cursors, offset)
    /\ b' = b + 1
    /\ pc' = "for"
    /\ UNCHANGED <<shape, events, header, offset, market_events, result>>
    /\ UNCHANGED <<pollerVars, clientVars>>

\* Some(market_events)
ReturnSome ==
    /\ pc = "for"
    /\ b > Len(events)
    /\ Finish(Some(market_events))
    /\ UNCHANGED <<shape, events, b, header, offset, market_events, cursors>>
    /\ UNCHANGED <<pollerVars, clientVars>>

DecoderInit ==
    /\ shape = <<>>
    /\ events = <<>>
    /\ pc = "idle"
    /\ b = 1
    /\ header = NoHeader
    /\ offset = 0
    /\ market_events = <<>>
    /\ cursors = <<>>
    /\ result = Pending

PollerIdle ==
    /\ chain = 0
    /\ until = <<>>
    /\ ppc = "config"
    /\ config = [before |-> <<>>, until |-> <<>>, limit |-> <<>>]
    /\ batch = <<>>
    /\ todo = <<>>
    /\ cur = 0
    /\ processed = <<>>
    /\ queue = <<>>
    /\ receiverAlive = TRUE
    /\ sent = <<>>

(***************************************************************************)
(* EventPoller::run                                                        *)
(*                                                                         *)
(* The transactions of the market address are 1..chain, in the order they  *)
(* were confirmed: a larger number is a newer transaction, and the number  *)
(* stands for the signature. Option values are <<>> and <<v>>.             *)
(***************************************************************************)
\* let config = match until { ... }
MakeConfig_alwaysLatest(u) == [before |-> <<>>, until |-> <<>>, limit |-> <<1>>]
MakeConfig_before(u) ==
    IF u = <<>>
    THEN [before |-> <<>>, until |-> <<>>, limit |-> <<1>>]
    ELSE [before |-> u, until |-> <<>>, limit |-> <<>>]
MakeConfig(u) ==
    IF u = <<>>
    THEN [before |-> <<>>, until |-> <<>>, limit |-> <<1>>]
    ELSE [before |-> <<>>, until |-> u, limit |-> <<>>]

\* the m newest signatures, newest first
Newest(n, m) == [k \in 1..m |-> n - k + 1]

\* get_signatures_for_address_with_config(..).unwrap_or_default(): the
\* signatures newer than config.until, newest first, at most config.limit of
\* them and never more than the node returns in one answer; the empty list
\* when the request fails
FetchResults(cfg, n) ==
    LET lower == IF cfg.until = <<>> THEN 0 ELSE cfg.until[1]
        avail == IF n > lower THEN n - lower ELSE 0
        most == IF cfg.limit = <<>> THEN avail ELSE Min(cfg.limit[1], avail)
    IN {Newest(n, m) : m \in 0..most}

\* .iter().map(..).enumerate().rev(): the pairs (i, signature), last first
RevEnumerate_forward(list) == [k \in 1..Len(list) |-> [i |-> k - 1, signature |-> list[k]]]
RevEnumerate(list) ==
    [k \in 1..Len(list) |->
        [i |-> Len(list) - k, signature |-> list[Len(list) - k + 1]]]

\* if i == 0 (n is the length of the batch)
UpdatesCursor_first(i, n) == i = n - 1
UpdatesCursor_never(i, n) == FALSE
UpdatesCursor(i, n) == i = 0

\* loop { let config = ...; the fetch
Fetch ==
    /\ ppc = "config"
    /\ LET cfg == MakeConfig(until) IN
       /\ config' = cfg
       /\ \E list \in FetchResults(cfg, chain) :
            /\ batch' = list
            /\ todo' = RevEnumerate(list)
    /\ processed' = <<>>
    /\ ppc' = "iter"
    /\ UNCHANGED <<chain, until, cur, queue, receiverAlive, sent>>
    /\ UNCHANGED <<decoderVars, clientVars>>

\* one step of the for loop up to the send: the cursor, then
\* parse_events_from_transaction(&signature).await.unwrap()
Process ==
    /\ ppc = "iter"
    /\ todo # <<>>
    /\ LET item == Head(todo) IN
       /\ until' = IF UpdatesCursor(item.i, Len(batch)) THEN <<item.signature>> ELSE until
       /\ cur' = item.signature
    /\ todo' = Tail(todo)
    /\ \E parsed \in BOOLEAN : ppc' = IF parsed THEN "send" ELSE "panicked"
    /\ UNCHANGED <<chain, config, batch, processed, queue, receiverAlive, sent>>
    /\ UNCHANGED <<decoderVars, clientVars>>

\* if event_sender.send(..).await.is_err() { ...; continue; }
OnSendError_return == "returned"
OnSendError == "iter"

\* event_sender.send(..).await: waits while the channel is full, fails once
\* the receiver is gone
Send ==
    /\ ppc = "send"
    /\ IF receiverAlive
       THEN /\ Len(queue) < ChanCap
            /\ queue' = Append(queue, cur)
            /\ sent' = Append(sent, cur)
            /\ processed' = Append(processed, [signature |-> cur, delivered |-> TRUE])
            /\ ppc' = "iter"
       ELSE /\ processed' = Append(processed, [signature |-> cur, delivered |-> FALSE])
            /\ UNCHANGED <<queue, sent>>
            /\ ppc' = OnSendError
    /\ UNCHANGED <<chain, until, config, batch, todo, cur, receiverAlive>>
    /\ UNCHANGED <<decoderVars, clientVars>>

\* what follows the `for`: the next fetch at once
AfterFor_noSleep == "config"

\* what follows the `for`: tokio::time::sleep(..).await
AfterFor == "sleep"

\* the for loop is exhausted
EndBatch ==
    /\ ppc = "iter"
    /\ todo = <<>>
    /\ ppc' = AfterFor
    /\ UNCHANGED <<chain, until, config, batch, todo, cur, processed, queue,
                   receiverAlive, sent>>
    /\ UNCHANGED <<decoderVars, clientVars>>

\* tokio::time::sleep(..).await returns
Sleep ==
    /\ ppc = "sleep"
    /\ ppc' = "config"
    /\ UNCHANGED <<chain, until, config, batch, todo, cur, processed, queue,
                   receiverAlive, sent>>
    /\ UNCHANGED <<decoderVars, clientVars>>

\* the environment: a transaction of the market is confirmed
NewTransaction ==
    /\ chain < MaxSig
    /\ chain' = chain + 1
    /\ UNCHANGED <<until, ppc, config, batch, todo, cur, processed, queue,
                   receiverAlive, sent>>
    /\ UNCHANGED <<decoderVars, clientVars>>

\* the environment: the consumer takes a message
Recv ==
    /\ receiverAlive
    /\ queue # <<>>
    /\ queue' = Tail(queue)
    /\ UNCHANGED <<chain, until, ppc, config, batch, todo, cur, processed,
                   receiverAlive, sent>>
    /\ UNCHANGED <<decoderVars, clientVars>>

\* the environment: the consumer drops the Receiver
DropReceiver ==
    /\ receiverAlive
    /\ receiverAlive' = FALSE
    /\ queue' = <<>>
    /\ UNCHANGED <<chain, until, ppc, config, batch, todo, cur, processed, sent>>
    /\ UNCHANGED <<decoderVars, clientVars>>

PollerNext ==
    \/ Fetch
    \/ Process
    \/ Send
    \/ EndBatch
    \/ Sleep
    \/ NewTransaction
    \/ Recv
    \/ DropReceiver

(***************************************************************************)
(* SDKClientCore: the registry of markets and the conversions              *)
(*                                                                         *)
(* A u64 is its eight little-endian bytes.  An f64 is the fraction         *)
(* n / d with a sign, for the values of the model on which the f64         *)
(* operations of the conversions are exact up to the final truncation; an  *)
(* f64 result is the fraction it is the nearest f64 of.                    *)
(***************************************************************************)
Keys == {"marketA", "marketB"}

MarketMetadata(key) ==
    IF key = "marketA"
    THEN [base_mint |-> "baseMintA", quote_mint |-> "quoteMintA",
          base_decimals |-> 9, quote_decimals |-> 6,
          base_multiplier |-> U64(1000000000),
          quote_multiplier |-> U64(1000000),
          base_lot_size |-> U64(1000000), quote_lot_size |-> U64(1),
          tick_size |-> U64(1000),
          num_base_lots_per_base_unit |-> U64(1000),
          num_quote_lots_per_tick |-> U64(1000)]
    ELSE [base_mint |-> "baseMintB", quote_mint |-> "quoteMintB",
          base_decimals |-> 3, quote_decimals |-> 2,
          base_multiplier |-> U64(1000),
          quote_multiplier |-> U64(100),
          base_lot_size |-> U64(10), quote_lot_size |-> U64(7),
          tick_size |-> U64(21),
          num_base_lots_per_base_unit |-> U64(100),
          num_quote_lots_per_tick |-> U64(3)]

Registries == {[k \in S |-> MarketMetadata(k)] : S \in SUBSET Keys}

\* what a call gives: a value, or a panic of the calling thread
Returned(v) == [tag |-> "Ok", val |-> v]
Panicked == [tag |-> "Panic", val |-> <<>>]

\* out, or what f makes of its value
Then(out, f(_)) == IF out.tag = "Ok" THEN f(out.val) ELSE out

\* self.markets.get(&self.active_market_key).unwrap()
get_active_market_metadata ==
    IF active_market_key \in DOMAIN markets
    THEN Returned(markets[active_market_key])
    ELSE Panicked

\* x * y of two u64: the product if it fits, else a panic in a build with
\* overflow checks and the low 64 bits in a build without
MulU64(x, y) ==
    IF FitsU64(Mul(x, y)) THEN Returned(WrapU64(Mul(x, y)))
    ELSE IF overflow_checks THEN Panicked
    ELSE Returned(WrappingMul(x, y))

\* x / d of two u64: a division by zero panics in every build
DivU64(x, d) ==
    IF IsZero(d) THEN Panicked ELSE Returned(Pad(Div(x, d), 8))

F64(neg, n, d) == [neg |-> neg, n |-> Trim(U64(n)), d |-> Trim(U64(d))]

\* (x * mult as f64 / lot as f64) as u64: the cast truncates, gives 0 for a
\* negative value and for NaN, and the largest u64 for a value too large
FloatToU64(x, mult, lot) ==
    IF x.neg \/ IsZero(x.n) THEN U64(0)
    ELSE IF IsZero(lot) \/ IsZero(mult) THEN (IF IsZero(mult) THEN U64(0) ELSE U64Max)
    ELSE LET q == Div(Mul(x.n, Trim(mult)), Mul(x.d, Trim(lot)))
         IN IF FitsU64(q) THEN Pad(Trim(q), 8) ELSE U64Max

base_units_to_base_lots(base_units) ==
    Then(get_active_market_metadata, LAMBDA market :
        Returned(FloatToU64(base_units, market.base_multiplier,
                            market.base_lot_size)))

base_amount_to_base_lots_quoteLot(base_amount) ==
    Then(get_active_market_metadata, LAMBDA market :
        DivU64(base_amount, market.quote_lot_size))

base_amount_to_base_lots(base_amount) ==
    Then(get_active_market_metadata, LAMBDA market :
        DivU64(base_amount, market.base_lot_size))

base_lots_to_base_amount(base_lots) ==
    Then(get_active_market_metadata, LAMBDA market :
        MulU64(base_lots, market.base_lot_size))

quote_units_to_quote_lots(quote_units) ==
    Then(get_active_market_metadata, LAMBDA market :
        Returned(FloatToU64(quote_units, market.quote_multiplier,
                            market.quote_lot_size)))

quote_amount_to_quote_lots(quote_amount) ==
    Then(get_active_market_metadata, LAMBDA market :
        DivU64(quote_amount, market.quote_lot_size))

quote_lots_to_quote_amount(quote_lots) ==
    Then(get_active_market_metadata, LAMBDA market :
        MulU64(quote_lots, market.quote_lot_size))

order_to_quote_amount(base_lots, price_in_ticks) ==
    Then(get_active_market_metadata, LAMBDA market :
        Then(Then(Then(MulU64(base_lots, price_in_ticks),
                       LAMBDA p : MulU64(p, market.num_quote_lots_per_tick)),
                  LAMBDA p : MulU64(p, market.quote_lot_size)),
             LAMBDA p : DivU64(p, market.num_base_lots_per_base_unit)))

float_price_to_ticks(price) ==
    Then(get_active_market_metadata, LAMBDA meta :
        Returned(FloatToU64(price, meta.quote_multiplier, meta.tick_size)))

\* (ticks as f64 * tick_size as f64) / quote_multiplier as f64
ticks_to_float_price(ticks) ==
    Then(get_active_market_metadata, LAMBDA meta :
        Returned([neg |-> FALSE, n |-> Trim(Mul(ticks, meta.tick_size)),
                  d |-> Trim(meta.quote_multiplier)]))

(***************************************************************************)
(* The calls on the client.  A caller makes one call, or feeds what        *)
(* *_amount_to_*_lots returned to *_lots_to_*_amount.                      *)
(***************************************************************************)
\* u64 arguments: small, aligned and not, and of the full width
Amounts ==
    {U64(0), U64(999), U64(1000), U64(70000), <<0, 0, 0, 0, 1, 0, 0, 0>>,
     <<1, 0, 0, 0, 0, 0, 0, 128>>, U64Max}

\* f64 arguments
Floats ==
    {F64(FALSE, 0, 1), F64(FALSE, 1, 1), F64(FALSE, 3, 2), F64(FALSE, 41, 4),
     F64(TRUE, 1, 1)}

\* the arguments of a call: any of S for a first call, what the call of op
\* returned for a call that follows it
ArgsFrom(S, op) ==
    IF calls = <<>> THEN S
    ELSE IF Len(calls) = 1 /\ calls[1].op = op /\ calls[1].out.tag = "Ok"
         THEN {calls[1].out.val}
         ELSE {}

Invoke(op, args, out) ==
    /\ calls' = Append(calls, [op |-> op, args |-> args, out |-> out])
    /\ UNCHANGED <<markets, active_market_key, overflow_checks>>
    /\ UNCHANGED <<decoderVars, pollerVars>>

CallBaseUnitsToBaseLots ==
    \E x \in ArgsFrom(Floats, "") :
        Invoke("base_units_to_base_lots", <<x>>, base_units_to_base_lots(x))

CallBaseAmountToBaseLots ==
    \E a \in ArgsFrom(Amounts, "") :
        Invoke("base_amount_to_base_lots", <<a>>, base_amount_to_base_lots(a))

CallBaseLotsToBaseAmount ==
    \E l \in ArgsFrom(Amounts, "base_amount_to_base_lots") :
        Invoke("base_lots_to_base_amount", <<l>>, base_lots_to_base_amount(l))

CallQuoteUnitsToQuoteLots ==
    \E x \in ArgsFrom(Floats, "") :
        Invoke("quote_units_to_quote_lots", <<x>>, quote_units_to_quote_lots(x))

CallQuoteAmountToQuoteLots ==
    \E a \in ArgsFrom(Amounts, "") :
        Invoke("quote_amount_to_quote_lots", <<a>>,
               quote_amount_to_quote_lots(a))

CallQuoteLotsToQuoteAmount ==
    \E l \in ArgsFrom(Amounts, "quote_amount_to_quote_lots") :
        Invoke("quote_lots_to_quote_amount", <<l>>,
               quote_lots_to_quote_amount(l))

CallOrderToQuoteAmount ==
    \E l \in ArgsFrom(Amounts, ""), p \in ArgsFrom(Amounts, "") :
        Invoke("order_to_quote_amount", <<l, p>>, order_to_quote_amount(l, p))

CallFloatPriceToTicks ==
    \E x \in ArgsFrom(Floats, "") :
        Invoke("float_price_to_ticks", <<x>>, float_price_to_ticks(x))

CallTicksToFloatPrice ==
    \E t \in ArgsFrom(Amounts, "") :
        Invoke("ticks_to_float_price", <<t>>, ticks_to_float_price(t))

(***************************************************************************)
(* get_decimal_string, for a signed amount type N.  A String is the        *)
(* sequence of its characters.                                             *)
(***************************************************************************)
RECURSIVE Pow10(_)
Pow10(n) == IF n = 0 THEN 1 ELSE 10 * Pow10(n - 1)

\* Rust's / and % on integers: the quotient is rounded towards zero and the
\* remainder has the sign of the dividend
TruncDiv(a, s) == IF a >= 0 THEN a \div s ELSE -((-a) \div s)
TruncRem(a, s) == a - s * TruncDiv(a, s)

DigitChar(d) == <<"0", "1", "2", "3", "4", "5", "6", "7", "8", "9">>[d + 1]

\* the decimal digits of n >= 0
RECURSIVE Digits(_)
Digits(n) ==
    IF n < 10 THEN <<DigitChar(n)>>
    ELSE Digits(n \div 10) \o <<DigitChar(n % 10)>>

Repeat(ch, n) == [k \in 1..n |-> ch]

\* format!("{}", n)
Display(n) == IF n < 0 THEN <<"-">> \o Digits(-n) ELSE Digits(n)

\* format!("{:0width$}", n): the zeros go between the sign and the digits,
\* and the sign counts in the width
ZeroPadded(n, width) ==
    IF n < 0
    THEN <<"-">> \o Repeat("0", width - 1 - Len(Digits(-n))) \o Digits(-n)
    ELSE Repeat("0", width - Len(Digits(n))) \o Digits(n)

\* str.replace(ch, "")
Remove(str, ch) == SelectSeq(str, LAMBDA c : c # ch)

get_decimal_string(amount, decimals) ==
    LET scale == Pow10(decimals)
        lhs == TruncDiv(amount, scale)
        rhs == Remove(ZeroPadded(TruncRem(amount, scale), decimals), "-")
    IN Display(lhs) \o <<".">> \o rhs

DecimalAmounts == {-123456, -1005, -5, 0, 5, 1005, 123456}

CallGetDecimalString ==
    \E amount \in ArgsFrom(DecimalAmounts, ""), decimals \in 0..MaxDecimals :
        Invoke("get_decimal_string", <<amount, decimals>>,
               Returned(get_decimal_string(amount, decimals)))

(***************************************************************************)
(* The instruction builders.  The constructors of phoenix_types are        *)
(* outside this code: an instruction and an order packet are the record    *)
(* of the constructor called and of the arguments it was given.  An        *)
(* Option is <<>> for None and <<v>> for Some(v).                          *)
(***************************************************************************)
trader == "trader"

U128(v) == ToBytes(v, 16)

\* Option::unwrap_or that drops the value of a Some
unwrap_or_dropsSome(opt, default) == default

\* Option::unwrap_or
unwrap_or(opt, default) == IF opt = <<>> THEN default ELSE opt[1]

\* Side::from_order_sequence_number: the orders of the bid side carry
\* sequence numbers with the highest bit set
from_order_sequence_number(order_sequence_number) ==
    IF order_sequence_number[8] >= 128 THEN "Bid" ELSE "Ask"

create_new_order_instruction(meta, packet) ==
    [ix |-> "new_order", market |-> active_market_key, trader |-> trader,
     base_mint |-> meta.base_mint, quote_mint |-> meta.quote_mint,
     packet |-> packet]

get_ioc_generic_ix(price, side, num_base_lots, self_trade_behavior, match_limit, client_order_id, use_only_deposited_funds) ==
    Then(get_active_market_metadata, LAMBDA meta :
        Then(DivU64(price, meta.tick_size),
             LAMBDA num_quote_ticks_per_base_unit :
                Returned(create_new_order_instruction(meta,
                    [new |-> "new_ioc_by_lots",
                     side |-> side,
                     price_in_ticks |-> num_quote_ticks_per_base_unit,
                     size |-> num_base_lots,
                     self_trade_behavior |->
                        unwrap_or(self_trade_behavior, "CancelProvide"),
                     match_limit |-> match_limit,
                     client_order_id |-> unwrap_or(client_order_id, U128(0)),
                     use_only_deposited_funds |->
                        unwrap_or(use_only_deposited_funds, FALSE)]))))

\* the arms of `match side` with the lot sizes of the other side
fok_lots_swapped(side, size, meta) ==
    IF side = "Bid" THEN DivU64(size, meta.base_lot_size)
                    ELSE DivU64(size, meta.quote_lot_size)

\* the arms of `match side` in get_fok_generic_ix: quote_lot_budget for a
\* Bid, num_base_lots for an Ask
fok_lots(side, size, meta) ==
    IF side = "Bid" THEN DivU64(size, meta.quote_lot_size)
                    ELSE DivU64(size, meta.base_lot_size)

get_fok_generic_ix(price, side, size, self_trade_behavior, match_limit, client_order_id, use_only_deposited_funds) ==
    Then(get_active_market_metadata, LAMBDA meta :
        Then(DivU64(price, meta.tick_size), LAMBDA target_price_in_ticks :
            Then(fok_lots(side, size, meta), LAMBDA lots :
                    Returned(create_new_order_instruction(meta,
                        [new |-> IF side = "Bid"
                                 THEN "new_fok_buy_with_limit_price"
                                 ELSE "new_fok_sell_with_limit_price",
                         side |-> side,
                         price_in_ticks |-> target_price_in_ticks,
                         size |-> lots,
                         self_trade_behavior |->
                            unwrap_or(self_trade_behavior, "CancelProvide"),
                         match_limit |-> match_limit,
                         client_order_id |->
                            unwrap_or(client_order_id, U128(0)),
                         use_only_deposited_funds |->
                            unwrap_or(use_only_deposited_funds, FALSE)])))))

get_limit_order_generic_ix(price, side, size, self_trade_behavior, match_limit, client_order_id, use_only_deposited_funds) ==
    Then(get_active_market_metadata, LAMBDA meta :
        Then(DivU64(price, meta.tick_size),
             LAMBDA num_quote_ticks_per_base_unit :
                Returned(create_new_order_instruction(meta,
                    [new |-> "new_limit_order",
                     side |-> side,
                     price_in_ticks |-> num_quote_ticks_per_base_unit,
                     size |-> size,
                     self_trade_behavior |->
                        unwrap_or(self_trade_behavior, "DecrementTake"),
                     match_limit |-> match_limit,
                     client_order_id |-> unwrap_or(client_order_id, U128(0)),
                     use_only_deposited_funds |->
                        unwrap_or(use_only_deposited_funds, FALSE)]))))

CancelOrderParams(id) ==
    [side |-> from_order_sequence_number(id.order_sequence_number),
     num_quote_ticks_per_base_unit |-> id.num_quote_ticks_per_base_unit,
     order_id |-> id.order_sequence_number]

\* the loop of get_cancel_ids_ix, pushing from the last id to the first
cancel_orders_reversed(ids) ==
    [k \in 1..Len(ids) |-> CancelOrderParams(ids[Len(ids) + 1 - k])]

\* the loop of get_cancel_ids_ix: one push for each id, in the order of ids
cancel_orders(ids) == [k \in 1..Len(ids) |-> CancelOrderParams(ids[k])]

get_cancel_ids_ix(ids) ==
    Then(Returned(cancel_orders(ids)), LAMBDA orders :
        Then(get_active_market_metadata, LAMBDA meta :
            Returned([ix |-> "cancel_multiple_orders_by_id",
                      market |-> active_market_key, trader |-> trader,
                      base_mint |-> meta.base_mint,
                      quote_mint |-> meta.quote_mint,
                      params |-> [orders |-> orders]])))

\* arguments of the builders
Prices == {U64(2100), U64Max}
Sizes == {U64(999), U64(70000)}
Sides == {"Bid", "Ask"}
SelfTradeBehaviors == {"Abort", "CancelProvide", "DecrementTake"}
Option(S) == {<<>>} \cup {<<v>> : v \in S}

FIFOOrderIds ==
    {[num_quote_ticks_per_base_unit |-> U64(100),
      order_sequence_number |-> <<1, 0, 0, 0, 0, 0, 0, 0>>],
     [num_quote_ticks_per_base_unit |-> U64(99),
      order_sequence_number |-> <<253, 255, 255, 255, 255, 255, 255, 255>>],
     [num_quote_ticks_per_base_unit |-> U64(100),
      order_sequence_number |-> <<2, 0, 0, 0, 0, 0, 0, 128>>]}

IdLists == UNION {[1..n -> FIFOOrderIds] : n \in 0..MaxIds}

\* the optional arguments of an order
OrderOptions ==
    Option(SelfTradeBehaviors) \X Option({U64(5)})
        \X Option({U128(0), U128(7)}) \X Option(BOOLEAN)

CallGetIocGenericIx ==
    \E price \in ArgsFrom(Prices, ""), side \in Sides, lots \in Sizes,
       o \in OrderOptions :
        Invoke("get_ioc_generic_ix", <<price, side, lots>> \o o,
               get_ioc_generic_ix(price, side, lots, o[1], o[2], o[3], o[4]))

CallGetFokGenericIx ==
    \E price \in ArgsFrom(Prices, ""), side \in Sides, size \in Sizes,
       o \in OrderOptions :
        Invoke("get_fok_generic_ix", <<price, side, size>> \o o,
               get_fok_generic_ix(price, side, size, o[1], o[2], o[3], o[4]))

CallGetLimitOrderGenericIx ==
    \E price \in ArgsFrom(Prices, ""), side \in Sides, size \in Sizes,
       o \in OrderOptions :
        Invoke("get_limit_order_generic_ix", <<price, side, size>> \o o,
               get_limit_order_generic_ix(price, side, size,
                                          o[1], o[2], o[3], o[4]))

CallGetCancelIdsIx ==
    \E ids \in ArgsFrom(IdLists, "") :
        Invoke("get_cancel_ids_ix", <<ids>>, get_cancel_ids_ix(ids))

\* Err(anyhow::Error::msg(..))
Failed(msg) == [tag |-> "Err", val |-> msg]

\* self.active_market_key = *market, whatever the registry holds
change_active_market_unchecked(market) ==
    [key |-> market, out |-> Returned(<<>>)]

\* change_active_market(&mut self, market): the active key after the call
\* and what the call returns
change_active_market(market) ==
    IF market \in DOMAIN markets
    THEN [key |-> market, out |-> Returned(<<>>)]
    ELSE [key |-> active_market_key, out |-> Failed("Market not found")]

ChangesOnly == \A k \in 1..Len(calls) : calls[k].op = "change_active_market"

CallChangeActiveMarket ==
    /\ Len(calls) < MaxChanges
    /\ ChangesOnly
    /\ \E market \in Keys :
          LET r == change_active_market(market) IN
          /\ active_market_key' = r.key
          /\ calls' = Append(calls, [op |-> "change_active_market",
                                     args |-> <<market>>, out |-> r.out])
    /\ UNCHANGED <<markets, overflow_checks>>
    /\ UNCHANGED <<decoderVars, pollerVars>>

ClientIdle ==
    /\ markets = [k \in Keys |-> MarketMetadata(k)]
    /\ active_market_key = "marketA"
    /\ overflow_checks = TRUE
    /\ calls = <<>>

\* the fields of SDKClientCore are public: a client is built with any
\* registry and any active key, in a build of either kind
ClientInit ==
    /\ markets \in Registries
    /\ active_market_key \in Keys
    /\ overflow_checks \in BOOLEAN
    /\ calls = <<>>

ClientNext ==
    \/ CallBaseUnitsToBaseLots
    \/ CallBaseAmountToBaseLots
    \/ CallBaseLotsToBaseAmount
    \/ CallQuoteUnitsToQuoteLots
    \/ CallQuoteAmountToQuoteLots
    \/ CallQuoteLotsToQuoteAmount
    \/ CallOrderToQuoteAmount
    \/ CallFloatPriceToTicks
    \/ CallTicksToFloatPrice
    \/ CallGetDecimalString
    \/ CallGetIocGenericIx
    \/ CallGetFokGenericIx
    \/ CallGetLimitOrderGenericIx
    \/ CallGetCancelIdsIx
    \/ CallChangeActiveMarket

Init == DecoderInit /\ PollerIdle /\ ClientIdle

Next ==
    \/ Call
    \/ HeaderPhase
    \/ RecordStep
    \/ EndBuffer
    \/ ReturnSome

Spec == Init /\ [][Next]_vars

PollerSpec == Init /\ [][PollerNext]_vars

\* the `while` has an iteration to run: ENABLED <<RecordStep>>_vars, since
\* every outcome of RecordStep changes pc or offset
InWhile == pc = "while" /\ offset < Len(events[b])

\* WF_vars(RecordStep), its enabling condition written as InWhile
RecordStepFair == []<>(~InWhile) \/ []<><<RecordStep>>_vars

\* parse_wrapper_events is synchronous code: once called it keeps running
\* until it returns or panics
DecoderRuns ==
    /\ WF_vars(HeaderPhase)
    /\ RecordStepFair
    /\ WF_vars(EndBuffer)
    /\ WF_vars(ReturnSome)

TerminationSpec == Init /\ [][Next]_vars /\ DecoderRuns

InitClient == DecoderInit /\ PollerIdle /\ ClientInit

ClientSpec == InitClient /\ [][ClientNext]_vars

(***************************************************************************)
(* Properties of parse_wrapper_events (specification Spec).                *)
(***************************************************************************)
RECURSIVE Reverse(_)
Reverse(q) == IF q = <<>> THEN <<>> ELSE Append(Reverse(Tail(q)), Head(q))

IsPrefix(p, q) == Len(p) <= Len(q) /\ SubSeq(q, 1, Len(p)) = p

RecordDiscriminants == {Discriminant(k) : k \in RecordKinds}

\* the per-kind byte length of the layout table: Fill=67, Reduce=35, Place=43,
\* Evict=58, FillSummary=43
L(kind) ==
    CASE kind = "Fill" -> 67
      [] kind = "Reduce" -> 35
      [] kind = "Place" -> 43
      [] kind = "Evict" -> 58
      [] kind = "FillSummary" -> 43

\* the decoder is about to read a record of the buffer b
AtRecord == pc = "while" /\ offset < Len(events[b])

\* the byte at the cursor names no record kind, or fewer bytes remain than
\* the record kind takes
BadRecordAtCursor ==
    LET d == events[b][offset + 1] IN
    \/ d \notin RecordDiscriminants
    \/ Len(events[b]) - offset < L(MarketEventWrapper[d + 1])

\* C1: a record whose discriminant byte is none of Fill, Place, Reduce, Evict,
\* FillSummary, or whose remaining length is smaller than the size of its
\* kind, makes the call return a failure value; the call never panics on it.
C1_BadRecordReturnsFailure ==
    [][(AtRecord /\ BadRecordAtCursor) => result' = None]_vars

\* C2: when some buffer of the call is truncated or otherwise corrupt, the
\* outcome is a decode error (a returned None), never a list of events.
C2_CorruptYieldsDecodeError ==
    (pc = "done" /\ ~WellFormed(shape)) => result = None

\* the part of C2 about partial results: no list is returned for a corrupt
\* input
NoPartialResult ==
    (pc = "done" /\ ~WellFormed(shape)) => result.tag # "Some"

\* a step of the record phase that decoded one record
RecordDecoded ==
    /\ AtRecord
    /\ Len(market_events') = Len(market_events) + 1

KindAtCursor == MarketEventWrapper[events[b][offset + 1] + 1]

\* C3 as stated: a record read at cursor c leaves the cursor at
\* c + 1 + L(kind).
C3_CursorAfterRecord_PlusOne ==
    [][RecordDecoded => offset' = offset + 1 + L(KindAtCursor)]_vars

\* C3 as amended: a record read at cursor c takes L(kind) bytes in all, the
\* discriminant byte being the first of them, and leaves the cursor at
\* c + L(kind).
C3_CursorAfterRecord ==
    [][RecordDecoded => offset' = offset + L(KindAtCursor)]_vars

C3_Witness ==
    /\ pc = "while"
    /\ Len(market_events) = 2
    /\ market_events[1].details # market_events[2].details
    /\ offset = AUDIT_LOG_HEADER_LEN + L(market_events[1].details)
                    + L(market_events[2].details)

\* C4: when the call returns an event list, the cursor of every buffer ended
\* exactly at the length of the buffer, and no buffer whose last record
\* extends past its end was accepted.
C4_CursorLandsOnEnd ==
    (pc = "done" /\ result.tag = "Some") =>
        /\ Len(cursors) = Len(events)
        /\ \A k \in 1..Len(events) : cursors[k] = Len(events[k])
        /\ \A k \in 1..Len(shape) : shape[k].cut = 0

C4_Witness ==
    /\ pc = "done"
    /\ result.tag = "Some"
    /\ Len(events) = 2
    /\ \A k \in 1..2 : cursors[k] = Len(events[k]) /\ cursors[k] > AUDIT_LOG_HEADER_LEN

\* the first AUDIT_LOG_HEADER_LEN bytes of a buffer decode as a Header
HeaderDecodes(event) ==
    /\ Len(event) >= AUDIT_LOG_HEADER_LEN
    /\ LET h == MarketEvent_try_from_slice(SubSeq(event, 1, AUDIT_LOG_HEADER_LEN))
       IN h.ok /\ h.kind = "Header"

\* C5: a buffer whose first 92 bytes do not decode as a Header (too short,
\* not deserializable, or another kind) ends the call in a returned decode
\* failure with no events.
C5_BadHeaderReturnsFailure ==
    [][(pc = "for" /\ b <= Len(events) /\ ~HeaderDecodes(events[b]))
            => result' = None]_vars

\* C6 as stated: in a returned list the event_index values are pairwise
\* distinct, strictly increasing, and the k-th event (from 0) of a log has
\* event_index k.
C6_EventIndexIsPosition ==
    (pc = "done" /\ result.tag = "Some" /\ Len(events) = 1) =>
        \A k \in 1..Len(result.list) : result.list[k].event_index = k - 1

\* C6 as amended: the event_index of the k-th returned event is the index
\* field of the k-th record of the log, whatever that field holds.
C6_EventIndexIsIndexField ==
    (pc = "done" /\ result.tag = "Some") =>
        /\ Len(result.list) = Len(Records(shape))
        /\ \A k \in 1..Len(result.list) :
              result.list[k].event_index = Records(shape)[k].index

C6_Witness ==
    /\ pc = "done"
    /\ result.tag = "Some"
    /\ Len(result.list) = 2
    /\ result.list[1].event_index = 256
    /\ result.list[2].event_index = 257

\* C7: a successful call returns one event per record, in the byte order of
\* the records and the order of the buffers, each with the variant its
\* discriminant selects.
C7_OneEventPerRecordInOrder ==
    (pc = "done" /\ result.tag = "Some") =>
        /\ Len(result.list) = Len(Records(shape))
        /\ \A k \in 1..Len(result.list) :
              /\ Records(shape)[k].disc \in RecordDiscriminants
              /\ result.list[k].details = MarketEventWrapper[Records(shape)[k].disc + 1]

C7_Witness ==
    /\ pc = "done"
    /\ result.tag = "Some"
    /\ Len(shape) = 2
    /\ Len(shape[1].recs) = 1
    /\ Len(shape[2].recs) = 1
    /\ result.list[1].details = "Evict"
    /\ result.list[2].details = "Fill"

(***************************************************************************)
(* Properties of EventPoller::run (specification PollerSpec).              *)
(***************************************************************************)
Signatures(ps) == [k \in 1..Len(ps) |-> ps[k].signature]

\* C8: the signatures of a batch, returned newest first, are processed and
\* sent one at a time oldest first: at every moment the sends made are an
\* initial part of the reversed batch, and all of it once the batch is done.
C8_OldestFirst ==
    /\ IsPrefix(Signatures(processed), Reverse(batch))
    /\ ppc = "send" => cur = Reverse(batch)[Len(processed) + 1]
    /\ ppc = "sleep" => Signatures(processed) = Reverse(batch)

C8_Witness ==
    /\ ppc = "sleep"
    /\ Len(batch) = 3
    /\ batch[1] > batch[3]
    /\ \A k \in 1..3 : processed[k].delivered
    /\ Signatures(processed) = <<batch[3], batch[2], batch[1]>>

\* C9: once a non-empty batch has been processed, the cursor is the newest
\* signature of the batch, the first of the list the fetch returned, whatever
\* the sends did.
C9_CursorIsNewestOfBatch ==
    (ppc = "sleep" /\ batch # <<>>) => until = <<batch[1]>>

C9_Witness ==
    /\ ppc = "sleep"
    /\ Len(batch) >= 2
    /\ until = <<batch[1]>>
    /\ \E k \in 1..Len(processed) : ~processed[k].delivered
    /\ \E k \in 1..Len(processed) : processed[k].delivered

\* C10: the cursor only moves forward (never back to None, never to an older
\* signature), and a message that enters the channel is of a transaction
\* newer than every message sent before it.
C10_CursorOnlyAdvances ==
    [][/\ until # <<>> => (until' # <<>> /\ until'[1] >= until[1])
       /\ sent' # sent =>
            /\ sent' = Append(sent, sent'[Len(sent')])
            /\ \A k \in 1..Len(sent) : sent[k] < sent'[Len(sent')]]_vars

C10_Witness ==
    /\ Len(sent) >= 3
    /\ batch # <<>>
    /\ until = <<batch[1]>>
    /\ sent[1] < batch[Len(batch)]
    /\ sent[Len(sent)] = batch[1]

\* the positions of run in which the loop is alive
Running == {"config", "iter", "send", "sleep"}

\* C11: a send that fails because the receiver is gone does not end run: the
\* send of that transaction is given up (nothing enters the channel), the
\* loop goes on with the rest of the batch, and run never ends at a send.
C11_SendFailureContinues ==
    [][/\ (ppc = "send" /\ ~receiverAlive /\ processed' # processed) =>
            /\ ppc' = "iter"
            /\ todo' = todo
            /\ batch' = batch
            /\ until' = until
            /\ sent' = sent
            /\ queue' = queue
       /\ (ppc = "send" /\ ppc' # ppc) => ppc' \in Running]_vars

C11_Witness ==
    /\ ppc = "sleep"
    /\ Len(processed) >= 2
    /\ ~processed[1].delivered
    /\ ~receiverAlive
    /\ \E k \in 1..Len(sent) : sent[k] < processed[1].signature

\* C12: the polling loop has no terminal state: whatever the fetch, the
\* decode and the send do, run stays in its loop (and so reaches the sleep
\* and the next fetch).
C12_NoTerminalState == ppc \in Running

\* C13: the request of a cycle is determined by the cursor: limit 1 and no
\* `until` when the cursor is None, until = s and no limit when it is
\* Some(s); `before` is never set.
C13_RequestFollowsCursor ==
    [][(ppc = "config" /\ ppc' # ppc) =>
            /\ config'.before = <<>>
            /\ until = <<>> => (config'.until = <<>> /\ config'.limit = <<1>>)
            /\ until # <<>> => (config'.until = until /\ config'.limit = <<>>)]_vars

C13_Witness ==
    /\ ppc = "iter"
    /\ config.until # <<>>
    /\ config.limit = <<>>
    /\ Len(batch) >= 2
    /\ \A k \in 1..Len(batch) : batch[k] > config.until[1]

(***************************************************************************)
(* The amounts of the decoded events (specification Spec).                 *)
(***************************************************************************)
\* the event pushed for the k-th record has the amounts the claim gives it
ExactAmounts(e, r) ==
    IF e.details = "FillSummary"
    THEN /\ Trim(e.fields[1]) = Trim(Mul(r.fields[1], Meta.base_lot_size))
         /\ Trim(e.fields[2]) = Trim(Mul(r.fields[2], Meta.quote_lot_size))
         /\ Trim(e.fields[3]) = Trim(Mul(r.fields[3], Meta.quote_lot_size))
    ELSE e.fields = r.fields

\* C14: for every FillSummary record decoded, total_base_filled,
\* total_quote_filled_including_fees and total_quote_fees are the exact
\* products of the raw lot counts and the lot sizes; the lot and tick fields
\* of the other kinds are the raw payload values.
C14_AmountsExact ==
    \A k \in 1..Len(market_events) :
        ExactAmounts(market_events[k], Records(shape)[k])

\* what holds of the amounts instead: the products are taken modulo 2^64
AmountsModuloWord ==
    \A k \in 1..Len(market_events) :
        LET e == market_events[k]
            r == Records(shape)[k]
        IN IF e.details = "FillSummary"
           THEN /\ e.fields[1] = WrapU64(Mul(r.fields[1], Meta.base_lot_size))
                /\ e.fields[2] = WrapU64(Mul(r.fields[2], Meta.quote_lot_size))
                /\ e.fields[3] = WrapU64(Mul(r.fields[3], Meta.quote_lot_size))
           ELSE e.fields = r.fields

\* the example of the specification: 5 lots of size 1000 are 5000
FillSummaryExample ==
    \A k \in 1..Len(market_events) :
        (market_events[k].details = "FillSummary"
            /\ Records(shape)[k].fields[1] = U64(5))
        => market_events[k].fields[1] = U64(5000)

(***************************************************************************)
(* Properties of the conversions and builders of SDKClientCore             *)
(* (specification ClientSpec).                                             *)
(***************************************************************************)
Conversions ==
    {"base_units_to_base_lots", "base_amount_to_base_lots",
     "base_lots_to_base_amount", "quote_units_to_quote_lots",
     "quote_amount_to_quote_lots", "quote_lots_to_quote_amount",
     "order_to_quote_amount", "float_price_to_ticks", "ticks_to_float_price"}

Registered == active_market_key \in DOMAIN markets

\* C15: a conversion invoked while no MarketMetadata is registered under
\* active_market_key gives an error to its caller and does not panic.
C15_UnregisteredDoesNotPanic ==
    \A i \in 1..Len(calls) :
        (calls[i].op \in Conversions /\ ~Registered)
            => calls[i].out.tag # "Panic"

\* what the code does instead: with no metadata under active_market_key every
\* conversion panics, and with metadata none of them panics on that account
UnregisteredPanics ==
    \A i \in 1..Len(calls) :
        (calls[i].op \in Conversions /\ ~Registered)
            => calls[i].out = Panicked

\* floor(base_lots * price_in_ticks * num_quote_lots_per_tick * quote_lot_size
\*       / num_base_lots_per_base_unit), in unbounded arithmetic
ExactQuoteAmount(base_lots, price_in_ticks, market) ==
    Trim(Div(Mul(Mul(Mul(base_lots, price_in_ticks),
                     market.num_quote_lots_per_tick),
                 market.quote_lot_size),
             market.num_base_lots_per_base_unit))

\* the product before the division, in unbounded arithmetic
QuoteProduct(base_lots, price_in_ticks, market) ==
    Mul(Mul(Mul(base_lots, price_in_ticks), market.num_quote_lots_per_tick),
        market.quote_lot_size)

OrderCalls ==
    {i \in 1..Len(calls) : calls[i].op = "order_to_quote_amount" /\ Registered}

\* C16: for all inputs whose exact quotient fits in 64 bits,
\* order_to_quote_amount returns that quotient, also when the product before
\* the division exceeds 2^64 - 1.
C16_QuotientWithoutWraparound ==
    \A i \in OrderCalls :
        LET q == ExactQuoteAmount(calls[i].args[1], calls[i].args[2],
                                  markets[active_market_key])
        IN FitsU64(q) => calls[i].out = Returned(Pad(q, 8))

\* what the code does: the quotient is exact when the product before the
\* division fits in 64 bits; when it does not, the call panics in a build
\* with overflow checks and never does in a build without
QuotientExactIfProductFits ==
    \A i \in OrderCalls :
        LET market == markets[active_market_key]
            q == ExactQuoteAmount(calls[i].args[1], calls[i].args[2], market)
            fits == FitsU64(QuoteProduct(calls[i].args[1], calls[i].args[2],
                                         market))
        IN /\ fits => calls[i].out = Returned(Pad(q, 8))
           /\ ~fits => (calls[i].out = Panicked <=> overflow_checks)

\* a product of 2^64 whose exact quotient fits in 64 bits: 2^32 lots at 2^32
\* ticks on marketB give 0 in a build without overflow checks
QuoteAmountExample ==
    \A i \in OrderCalls :
        (/\ active_market_key = "marketB"
         /\ ~overflow_checks
         /\ calls[i].args = <<Pad(Pow256(4), 8), Pad(Pow256(4), 8)>>)
            => calls[i].out = Returned(U64(0))

\* reached: 2^32 lots at 2^32 ticks on marketB
QuoteAmountExampleReached ==
    /\ Len(calls) = 1 /\ calls[1].op = "order_to_quote_amount"
    /\ active_market_key = "marketB" /\ Registered /\ ~overflow_checks
    /\ calls[1].args = <<Pad(Pow256(4), 8), Pad(Pow256(4), 8)>>

\* the value of a number of at most three bytes
RECURSIVE ToInt(_)
ToInt(x) == IF x = <<>> THEN 0 ELSE Head(x) + 256 * ToInt(Tail(x))

\* the caller fed what *_amount_to_*_lots returned to *_lots_to_*_amount
RoundTrip ==
    /\ Len(calls) = 2
    /\ Registered
    /\ \/ /\ calls[1].op = "base_amount_to_base_lots"
          /\ calls[2].op = "base_lots_to_base_amount"
       \/ /\ calls[1].op = "quote_amount_to_quote_lots"
          /\ calls[2].op = "quote_lots_to_quote_amount"
    /\ calls[2].args = <<calls[1].out.val>>

RoundTripLotSize ==
    IF calls[1].op = "base_amount_to_base_lots"
    THEN markets[active_market_key].base_lot_size
    ELSE markets[active_market_key].quote_lot_size

\* C17: for a market with base_lot_size > 0 and every 64-bit amount a,
\* base_lots_to_base_amount(base_amount_to_base_lots(a)) is a - (a mod
\* base_lot_size): a itself exactly when a is aligned to base_lot_size, and
\* strictly less otherwise; the same for the quote pair with quote_lot_size.
C17_RoundTripTruncates ==
    (RoundTrip /\ ~IsZero(RoundTripLotSize)) =>
        LET a == calls[1].args[1]
            lot == RoundTripLotSize
            rest == Rem(a, lot)
            back == calls[2].out
        IN /\ back = Returned(Sub(a, rest))
           /\ back.val = a <=> IsZero(rest)
           /\ ~IsZero(rest) => Less(back.val, a)
           /\ Len(Trim(a)) <= 3 =>
                back.val = U64(ToInt(Trim(a))
                               - (ToInt(Trim(a)) % ToInt(Trim(lot))))

\* an amount of the full width that is not aligned went through the base pair
\* and came back smaller
C17_Witness ==
    /\ RoundTrip /\ ~IsZero(RoundTripLotSize)
    /\ calls[1].op = "base_amount_to_base_lots"
    /\ calls[1].args = <<U64Max>>
    /\ calls[2].out.tag = "Ok"
    /\ Less(calls[2].out.val, U64Max)

\* an aligned amount went through the quote pair and came back as it was
RoundTripAlignedReached ==
    /\ RoundTrip /\ calls[1].op = "quote_amount_to_quote_lots"
    /\ active_market_key = "marketB"
    /\ calls[1].args = <<U64(70000)>>
    /\ calls[2].out = Returned(U64(70000))

DecimalCalls == {i \in 1..Len(calls) : calls[i].op = "get_decimal_string"}

\* the part of str after its first '.'
AfterDot(str) ==
    LET dot == CHOOSE k \in 1..Len(str) :
                   str[k] = "." /\ \A j \in 1..(k - 1) : str[j] # "."
    IN SubSeq(str, dot + 1, Len(str))

IsDigits(str) == \A k \in 1..Len(str) : str[k] \in {DigitChar(d) : d \in 0..9}

\* C18: the part after the '.' of get_decimal_string(amount, decimals) has
\* exactly `decimals` digits, zero-padded on the left, and no '-' sign, for
\* every amount, negative ones included, and every decimals, 0 included.
C18_FractionHasDecimalsDigits ==
    \A i \in DecimalCalls :
        LET frac == AfterDot(calls[i].out.val)
        IN Len(frac) = calls[i].args[2] /\ IsDigits(frac)

\* what the code does: the fraction has no sign; it has `decimals` digits for
\* an amount >= 0 and decimals >= 1, the single digit 0 for decimals = 0,
\* and one digit less than `decimals` for a negative amount whose remainder
\* has fewer than `decimals` digits
FractionAsFormatted ==
    \A i \in DecimalCalls :
        LET amount == calls[i].args[1]
            decimals == calls[i].args[2]
            frac == AfterDot(calls[i].out.val)
            rest == TruncRem(amount, Pow10(decimals))
        IN /\ IsDigits(frac)
           /\ decimals = 0 => frac = <<"0">>
           /\ (decimals >= 1 /\ amount >= 0) => Len(frac) = decimals
           /\ (decimals >= 1 /\ rest < 0 /\ Len(Digits(-rest)) < decimals)
                => Len(frac) = decimals - 1

\* -1005 with 3 decimals is formatted as -1.05
DecimalStringExample ==
    \A i \in DecimalCalls :
        calls[i].args = <<-1005, 3>>
            => calls[i].out.val = <<"-", "1", ".", "0", "5">>

CancelCalls ==
    {i \in 1..Len(calls) : calls[i].op = "get_cancel_ids_ix" /\ Registered}

\* C19: get_cancel_ids_ix(ids) builds one cancel-multiple instruction with
\* one CancelOrderParams for each input id, in input order; each entry has the
\* side derived from that id's order_sequence_number, and the id's
\* num_quote_ticks_per_base_unit and order_sequence_number as its price and
\* order id.  This holds for every list, empty or with repeated ids.
C19_OneCancelParamsPerId ==
    \A i \in CancelCalls :
        LET ids == calls[i].args[1]
            out == calls[i].out
        IN /\ out.tag = "Ok"
           /\ out.val.ix = "cancel_multiple_orders_by_id"
           /\ Len(out.val.params.orders) = Len(ids)
           /\ \A k \in 1..Len(ids) :
                LET order == out.val.params.orders[k] IN
                /\ order.side =
                     from_order_sequence_number(ids[k].order_sequence_number)
                /\ order.num_quote_ticks_per_base_unit =
                     ids[k].num_quote_ticks_per_base_unit
                /\ order.order_id = ids[k].order_sequence_number

\* a list of two ids of different sides and prices was cancelled
C19_Witness ==
    \E i \in CancelCalls :
        LET ids == calls[i].args[1] IN
        /\ Len(ids) = 2
        /\ calls[i].out.tag = "Ok"
        /\ calls[i].out.val.params.orders[1].side = "Bid"
        /\ calls[i].out.val.params.orders[2].side = "Ask"
        /\ ids[1].num_quote_ticks_per_base_unit
             # ids[2].num_quote_ticks_per_base_unit

\* the empty list and a list with a repeated id were cancelled
CancelEmptyReached ==
    \E i \in CancelCalls :
        calls[i].args[1] = <<>> /\ calls[i].out.val.params.orders = <<>>

CancelRepeatedReached ==
    \E i \in CancelCalls :
        /\ Len(calls[i].args[1]) = 2
        /\ calls[i].args[1][1] = calls[i].args[1][2]
        /\ Len(calls[i].out.val.params.orders) = 2

OrderBuilders ==
    {"get_ioc_generic_ix", "get_fok_generic_ix", "get_limit_order_generic_ix"}

OrderCallsBuilt ==
    {i \in 1..Len(calls) :
        calls[i].op \in OrderBuilders /\ calls[i].out.tag = "Ok"}

\* what an absent optional argument stands for
DefaultSelfTradeBehavior(op) ==
    IF op = "get_limit_order_generic_ix" THEN "DecrementTake"
    ELSE "CancelProvide"

\* C20: with the optional parameters None, get_ioc_generic_ix and
\* get_fok_generic_ix use self-trade behaviour CancelProvide and
\* get_limit_order_generic_ix uses DecrementTake, and all three use
\* client_order_id 0 and use_only_deposited_funds false; a supplied Some(v)
\* goes to the order packet unchanged.
C20_DefaultsAndPassThrough ==
    \A i \in OrderCallsBuilt :
        LET self_trade_behavior == calls[i].args[4]
            client_order_id == calls[i].args[6]
            use_only_deposited_funds == calls[i].args[7]
            packet == calls[i].out.val.packet
        IN /\ packet.self_trade_behavior =
                (IF self_trade_behavior = <<>>
                 THEN DefaultSelfTradeBehavior(calls[i].op)
                 ELSE self_trade_behavior[1])
           /\ packet.client_order_id =
                (IF client_order_id = <<>> THEN Zeros(16)
                 ELSE client_order_id[1])
           /\ packet.use_only_deposited_funds =
                (IF use_only_deposited_funds = <<>> THEN FALSE
                 ELSE use_only_deposited_funds[1])

\* a limit order was built with every optional parameter None
C20_Witness ==
    \E i \in OrderCallsBuilt :
        /\ calls[i].op = "get_limit_order_generic_ix"
        /\ SubSeq(calls[i].args, 4, 7) = <<<<>>, <<>>, <<>>, <<>>>>
        /\ calls[i].out.val.packet.self_trade_behavior = "DecrementTake"

\* an IOC order was built with values that differ from every default
SuppliedOptionsReached ==
    \E i \in OrderCallsBuilt :
        /\ calls[i].op = "get_ioc_generic_ix"
        /\ calls[i].args[4] = <<"DecrementTake">>
        /\ calls[i].args[6] = <<U128(7)>>
        /\ calls[i].args[7] = <<TRUE>>
        /\ calls[i].out.val.packet.client_order_id = U128(7)

\* q = floor(x / d) for d > 0, by multiplication: q * d <= x < q * d + d
IsFloorQuotient(q, x, d) ==
    LET qd == Mul(q, d)
    IN ~Less(x, qd) /\ Less(x, AddBytes(qd, Pad(d, Len(qd)), 0))

FokCallsBuilt ==
    {i \in OrderCallsBuilt : calls[i].op = "get_fok_generic_ix"}

\* C21: get_fok_generic_ix sizes the order by side: for Side::Bid the packet
\* is a fill-or-kill buy with a quote-lot budget of floor(size /
\* quote_lot_size), for Side::Ask a fill-or-kill sell of floor(size /
\* base_lot_size) base lots; the limit price is floor(price / tick_size).
C21_FokSizedBySide ==
    \A i \in FokCallsBuilt :
        LET price == calls[i].args[1]
            side == calls[i].args[2]
            size == calls[i].args[3]
            meta == markets[active_market_key]
            packet == calls[i].out.val.packet
        IN /\ IsFloorQuotient(packet.price_in_ticks, price, meta.tick_size)
           /\ side = "Bid" =>
                /\ packet.new = "new_fok_buy_with_limit_price"
                /\ IsFloorQuotient(packet.size, size, meta.quote_lot_size)
           /\ side = "Ask" =>
                /\ packet.new = "new_fok_sell_with_limit_price"
                /\ IsFloorQuotient(packet.size, size, meta.base_lot_size)

\* on marketB (quote_lot_size 7, base_lot_size 10, tick_size 21) a buy of
\* size 70000 at price 2100 was built with a budget of 10000 quote lots at
\* 100 ticks
C21_Witness ==
    \E i \in FokCallsBuilt :
        /\ active_market_key = "marketB"
        /\ SubSeq(calls[i].args, 1, 3) = <<U64(2100), "Bid", U64(70000)>>
        /\ calls[i].out.val.packet.size = U64(10000)
        /\ calls[i].out.val.packet.price_in_ticks = U64(100)

\* and a sell of size 999 with 99 base lots
FokSellReached ==
    \E i \in FokCallsBuilt :
        /\ active_market_key = "marketB"
        /\ SubSeq(calls[i].args, 1, 3) = <<U64Max, "Ask", U64(999)>>
        /\ calls[i].out.val.packet.size = U64(99)

(***************************************************************************)
(* More properties of parse_wrapper_events (specification Spec).           *)
(***************************************************************************)
\* the number of records of the buffers before the j-th
RECURSIVE RecordsBefore(_)
RecordsBefore(j) ==
    IF j <= 1 THEN 0 ELSE RecordsBefore(j - 1) + Len(shape[j - 1].recs)

\* the buffer that holds the k-th record of the call
BufferOfRecord(k) ==
    CHOOSE j \in 1..Len(shape) :
        RecordsBefore(j) < k /\ k <= RecordsBefore(j + 1)

\* a buffer of exactly the 92 bytes of a header
HeaderOnly(s) ==
    s.hdr = Discriminant("Header") /\ s.recs = <<>> /\ s.cut = 0

HeaderFields(e) ==
    [market_sequence_number |-> e.sequence_number, timestamp |-> e.timestamp,
     slot |-> e.slot, market |-> e.market, signer |-> e.signer]

\* C22: a buffer of exactly the 92-byte header and no records is valid: the
\* call does not fail on it and it contributes no event; and every event
\* decoded from a buffer with records carries the market, sequence number,
\* slot, timestamp and signer of the header of that same buffer.
C22_HeaderScopesRecords ==
    /\ (pc = "done" /\ result.tag # "Some" /\ b <= Len(shape))
            => ~HeaderOnly(shape[b])
    /\ pc = "for" => Len(market_events) = RecordsBefore(b)
    /\ \A k \in 1..Len(market_events) :
            HeaderFields(market_events[k]) = shape[BufferOfRecord(k)].header

\* a call of a header-only buffer followed by a buffer with a record returned
\* one event, which carries the header of the second buffer
C22_Witness ==
    /\ pc = "done"
    /\ result.tag = "Some"
    /\ Len(shape) = 2
    /\ HeaderOnly(shape[1])
    /\ Len(events[1]) = AUDIT_LOG_HEADER_LEN
    /\ Len(result.list) = 1
    /\ result.list[1].signer = Pubkey(42)
    /\ result.list[1].slot = U64(5002)

\* a call of one header-only buffer returned no events
HeaderOnlyCallReached ==
    /\ pc = "done"
    /\ Len(shape) = 1 /\ HeaderOnly(shape[1])
    /\ result = Some(<<>>)

(***************************************************************************)
(* More properties of EventPoller::run (specification PollerSpec).  The    *)
(* fetch of the model returns only signatures newer than config.until.     *)
(***************************************************************************)
\* the step that takes a signature from the batch and decodes its transaction
DecodeStep == ppc = "iter" /\ todo # <<>> /\ ppc' \in {"send", "panicked"}

\* C23: within one run every signature is decoded and sent at most once: a
\* signature taken for decoding is newer than every signature decoded or
\* sent before, whether the send of those succeeded or failed, and a message
\* that enters the channel is of a signature not sent before.
C23_AtMostOnce ==
    [][/\ DecodeStep =>
            /\ cur' > cur
            /\ \A k \in 1..Len(sent) : sent[k] < cur'
            /\ \A k \in 1..Len(processed) : processed[k].signature < cur'
       /\ sent' # sent =>
            /\ sent' = Append(sent, cur)
            /\ \A k \in 1..Len(sent) : sent[k] # cur]_vars

\* the send of a signature failed because the receiver was gone, after an
\* older signature was delivered, and the cursor is at the failed signature
C23_Witness ==
    /\ ppc = "sleep"
    /\ ~receiverAlive
    /\ sent # <<>>
    /\ processed # <<>>
    /\ ~processed[Len(processed)].delivered
    /\ processed[Len(processed)].signature > sent[Len(sent)]
    /\ until = <<processed[Len(processed)].signature>>

\* a cycle after a failed send decoded a newer signature
DecodedAfterFailedSend ==
    /\ ~receiverAlive
    /\ Len(processed) = 2
    /\ ~processed[1].delivered /\ ~processed[2].delivered
    /\ config.until # <<>>
    /\ processed[1].signature > config.until[1]

\* a request has been issued (config holds it)
Requested == config # [before |-> <<>>, until |-> <<>>, limit |-> <<>>]

\* C24: when the signature fetch of a cycle fails or returns no signatures,
\* run leaves the cursor unchanged, decodes no transaction, sends nothing
\* and goes to the sleep; the next cycle issues the same request.
C24_EmptyFetchSleeps ==
    [][/\ (ppc = "config" /\ ppc' # ppc /\ batch' = <<>>) =>
            /\ ppc' = "iter" /\ todo' = <<>>
            /\ UNCHANGED <<until, cur, sent, queue>>
       /\ (ppc = "iter" /\ batch = <<>> /\ ppc' # ppc) =>
            /\ ppc' = "sleep"
            /\ UNCHANGED <<until, cur, sent, queue, processed>>
       /\ (ppc = "sleep" /\ batch = <<>> /\ ppc' # ppc) =>
            /\ ppc' = "config"
            /\ UNCHANGED <<until, cur, sent, queue, processed>>
       /\ (ppc = "config" /\ batch = <<>> /\ Requested /\ ppc' # ppc) =>
            config' = config]_vars

\* with a cursor set and a newer transaction confirmed, the fetch came back
\* empty and the loop is at the sleep, the cursor where the request had it
C24_Witness ==
    /\ ppc = "sleep"
    /\ batch = <<>>
    /\ processed = <<>>
    /\ until # <<>>
    /\ config.until = until
    /\ chain > until[1]

\* one iteration of the record loop at the cursor: the call ends, or the
\* cursor moves on by the positive size of the record read there
IterationAdvances ==
    LET wrapper == MarketEventWrapper_try_from_slice(events[b][offset + 1]) IN
    \/ pc' = "done"
    \/ /\ pc' = "while"
       /\ wrapper.ok
       /\ wrapper.kind \in RecordKinds
       /\ Size(wrapper.kind) > 0
       /\ offset' = offset + Size(wrapper.kind)
       /\ offset' > offset
       /\ offset' <= Len(events[b])

\* C25: parse_wrapper_events terminates on every finite input: an iteration
\* of the record loop ends the call or strictly increases the cursor by the
\* record's positive size, the cursor never decreases or stalls in the loop,
\* and the loop exits once the cursor is no longer below the buffer length.
C25_Terminates ==
    /\ [][pc = "while" =>
            /\ offset' >= offset
            /\ offset < Len(events[b]) => IterationAdvances
            /\ ~(offset < Len(events[b])) => pc' = "for" /\ offset' = offset]_vars
    /\ (pc \in {"for", "while"}) ~> (pc = "done")

\* a call over the most buffers, the first with the most records, has returned
\* after the cursor walked every record of every buffer
C25_Witness ==
    /\ pc = "done"
    /\ result = Some(market_events)
    /\ Len(events) = MaxBufs
    /\ Len(cursors) = MaxBufs
    /\ cursors[1] > AUDIT_LOG_HEADER_LEN + 35 * MaxRecs - 1
    /\ Len(market_events) = MaxRecs

\* a step that is a call of change_active_market
ChangeStep ==
    /\ calls' # calls
    /\ calls'[Len(calls')].op = "change_active_market"

\* C26: change_active_market(m) returns Ok and sets active_market_key to m
\* exactly when m is a key of markets; otherwise it returns the error
\* "Market not found" and leaves active_market_key and markets unchanged. So
\* a registered active_market_key stays registered over any sequence of
\* change_active_market calls.
C26_ChangeKeepsRegistered ==
    [][ChangeStep =>
          LET call == calls'[Len(calls')]
              m == call.args[1]
          IN /\ markets' = markets
             /\ IF m \in DOMAIN markets
                THEN call.out = Returned(<<>>) /\ active_market_key' = m
                ELSE /\ call.out = Failed("Market not found")
                     /\ active_market_key' = active_market_key
             /\ Registered => Registered']_vars

\* a refused change followed by an accepted one that moved the active key
C26_Witness ==
    /\ Len(calls) = 2
    /\ ChangesOnly
    /\ calls[1].out = Failed("Market not found")
    /\ calls[2].out = Returned(<<>>)
    /\ active_market_key = calls[2].args[1]
    /\ Registered

\* a client built with an unregistered active key had a change refused and
\* is still on that key
RefusedChangeReached ==
    /\ calls # <<>>
    /\ ChangesOnly
    /\ calls[Len(calls)].out.tag = "Err"
    /\ ~Registered

====
